---- MODULE Spec2Model ----
(***************************************************************************)
(* A model of the GoCube connection manager                                *)
(* (custom_components/gocube/gocube_ble): the frame codec of parser.py,    *)
(* and the connection lifecycle, command sending, debouncing and listener  *)
(* fan-out of connection.py.                                               *)
(*                                                                         *)
(* Python indexes from 0 and TLA+ sequences from 1: data[k] in the source  *)
(* is data[k + 1] here.  None is "None" (0 for a handle, -1 for a level).     *)
(* Time is counted in ticks of 100 ms.                                     *)
(***************************************************************************)
EXTENDS Integers, Sequences, FiniteSets, TLC

(***************************************************************************)
(* Program constants                                                       *)
(***************************************************************************)
MAX_RETRIES == 3
\* RETRY_DELAY = 2.0 s, in ticks of 100 ms
RETRY_DELAY == 20
MSG_PREFIX == 42
MSG_TYPE_ROTATION == 1
MSG_TYPE_STATE == 2
MSG_TYPE_ORIENTATION == 3
MSG_TYPE_BATTERY == 5
MSG_TYPE_STATS == 7
MSG_TYPE_CUBE_TYPE == 8
\* self._state_update_interval = 0.5 s, in ticks of 100 ms
StateUpdateInterval == 5
\* len(data) >= 60 in parse_state_message, len(data) >= 5 in parse_battery_message
MinStateLen == 60
MinBatteryLen == 5
\* len(data) < 3 in _notification_handler
MinFrameLen == 3

(***************************************************************************)
(* Bounds of the model                                                     *)
(***************************************************************************)
\* the clock stops at MaxTime ticks
MaxTime == 12
\* send_command("GetState") calls made by callers on a connected manager in one run
MaxCalls == 2
\* transport handles that exist at one time
MaxHandles == 2
\* the clock of the auto-reconnect sequences stops at Horizon ticks
Horizon == 150

CONFIGURATION_COMMANDS ==
    {"Reboot", "SetSolvedState", "DisableOrientation", "EnableOrientation",
     "GetBattery", "GetState", "GetStats", "GetCubeType",
     "LedFlash", "LedToggleAnimation", "LedFlashSlow", "LedToggle"}

\* FACE_ROTATION_MAP.get(b, "Unknown")
FACE_ROTATION_MAP(b) ==
    CASE b = 0 -> "Blue Clockwise"
      [] b = 1 -> "Blue Counterclockwise"
      [] b = 2 -> "Green Clockwise"
      [] b = 3 -> "Green Counterclockwise"
      [] b = 4 -> "White Clockwise"
      [] b = 5 -> "White Counterclockwise"
      [] b = 6 -> "Yellow Clockwise"
      [] b = 7 -> "Yellow Counterclockwise"
      [] b = 8 -> "Red Clockwise"
      [] b = 9 -> "Red Counterclockwise"
      [] b = 10 -> "Orange Clockwise"
      [] b = 11 -> "Orange Counterclockwise"
      [] OTHER -> "Unknown"

\* COLOR_HEX_LOOKUP.get(b): None for a byte that is no key
COLOR_HEX_LOOKUP(b) ==
    CASE b = 0 -> "Blue"
      [] b = 1 -> "Green"
      [] b = 2 -> "White"
      [] b = 3 -> "Yellow"
      [] b = 4 -> "Red"
      [] b = 5 -> "Orange"
      [] OTHER -> "None"

\* list(COLOR_HEX_LOOKUP.values())
FaceNames == <<"Blue", "Green", "White", "Yellow", "Red", "Orange">>

(***************************************************************************)
(* Frame codec (parser.py)                                                 *)
(***************************************************************************)
\* GoCubeData(): the fresh record of a new GoCubeDataParser; battery_level None is -1
NoBattery == -1
GoCubeData == [battery_level |-> NoBattery, is_solved |-> FALSE, face_states |-> <<>>]

\* d[k] = v for a dict d
DictSet(d, k, v) == [x \in (DOMAIN d) \cup {k} |-> IF x = k THEN v ELSE d[x]]

\* s[a:b] of Python, for 0 <= a <= b (the slice is clamped to the sequence)
Slice(s, a, b) ==
    LET hi == IF b < Len(s) THEN b ELSE Len(s)
    IN  IF a >= hi THEN <<>> ELSE SubSeq(s, a + 1, hi)

RECURSIVE SumBytes(_)
SumBytes(s) == IF s = <<>> THEN 0 ELSE Head(s) + SumBytes(Tail(s))

\* the same comparison without the last sticker
AllButLastEqual(face_colors) ==
    \A k \in 1..(Len(face_colors) - 1) : face_colors[k] = face_colors[1]

\* all(color == face_colors[0] for color in face_colors)
_is_face_solved(face_colors) ==
    \A k \in 1..Len(face_colors) : face_colors[k] = face_colors[1]

\* state_data = data[3:]; face_data = [state_data[i : i + 9] for i in range(0, 54, 9)];
\* this is face_data[i], 0 <= i < 6
face_data(frame, i) == Slice(Slice(frame, 3, Len(frame)), 9 * i, 9 * i + 9)

\* the sticker bytes themselves, not mapped to colours
FaceBytes(colors) == Slice(colors, 1, Len(colors))

\* face_colors = [COLOR_HEX_LOOKUP.get(byte) for byte in colors[1:]]
FaceColors(colors) ==
    LET stickers == Slice(colors, 1, Len(colors))
    IN  [k \in 1..Len(stickers) |-> COLOR_HEX_LOOKUP(stickers[k])]

RECURSIVE UpdateFaces(_, _, _)
UpdateFaces(fs, frame, i) ==
    IF i >= 6 THEN fs
    ELSE UpdateFaces(DictSet(fs, FaceNames[i + 1],
                             _is_face_solved(FaceColors(face_data(frame, i)))),
                     frame, i + 1)

\* the same with is_solved true as soon as one face is solved
ParseStateAnyFace(d, frame) ==
    IF Len(frame) >= MinStateLen
    THEN LET fs == UpdateFaces(d.face_states, frame, 0)
         IN  [d EXCEPT !.face_states = fs,
                       !.is_solved = \E n \in DOMAIN fs : fs[n]]
    ELSE d

parse_state_message(d, frame) ==
    IF Len(frame) >= MinStateLen
    THEN LET fs == UpdateFaces(d.face_states, frame, 0)
         IN  [d EXCEPT !.face_states = fs,
                       !.is_solved = \A n \in DOMAIN fs : fs[n]]
    ELSE d

\* the sum of the first four bytes, not reduced
SumOfFour(frame) == SumBytes(Slice(frame, 0, 4))

\* checksum = sum(data[:4]) % 0x100
checksum(frame) == SumBytes(Slice(frame, 0, 4)) % 256

\* the same, taking the level of a frame of 4 bytes too
ParseBatteryOfFour(d, frame) ==
    IF Len(frame) >= MinBatteryLen
    THEN IF checksum(frame) = frame[5]
         THEN [d EXCEPT !.battery_level = frame[4]]
         ELSE d
    ELSE IF Len(frame) >= 4 THEN [d EXCEPT !.battery_level = frame[4]]
    ELSE d

parse_battery_message(d, frame) ==
    IF Len(frame) >= MinBatteryLen
    THEN IF checksum(frame) = frame[5]
         THEN [d EXCEPT !.battery_level = frame[4]]
         ELSE d
    ELSE d

(***************************************************************************)
(* State                                                                   *)
(***************************************************************************)
VARIABLES
    client,                \* self._client: 0 is None, else a transport handle
    characteristic,        \* self._characteristic: "None" or "RX"
    is_connected,          \* self._is_connected
    device,                \* self._device: "None" or "cube"
    data,                  \* self._data_parser.data
    state_callbacks,       \* self._state_callbacks
    movement_callbacks,    \* self._movement_callbacks
    last_state_update,     \* self._last_state_update
    pending_state_update,  \* self._pending_state_update
    should_auto_reconnect, \* self._should_auto_reconnect
    connection_lock,       \* holder of self._connection_lock, or "free"
    procs,                 \* the coroutines: callers' calls and created tasks
    handles,               \* the transport's view of every BleakClient
    rx,                    \* history: the last frame given to _notification_handler
    now,                   \* time.time(), in ticks
    calls,                 \* history: when callers called send_command("GetState")
                           \* on a connected manager
    writes,                \* history: when a GetState write was issued
    fan,                   \* what the listener fan-out of the last step did
    obs,                   \* what ended, was written and was created in the last step
    disc_called            \* history: disconnect() was called and auto-reconnect
                           \* was not enabled again since

vars == <<client, characteristic, is_connected, device, data, state_callbacks,
          movement_callbacks, last_state_update, pending_state_update,
          should_auto_reconnect, connection_lock, procs, handles, rx, now, calls,
          writes, fan, obs, disc_called>>

\* callers that may have a call in progress, and slots of asyncio.create_task
UserIds == {"u1", "u2"}
\* the tasks that can exist at one time, of each coroutine that is made a task:
\* _auto_reconnect, send_command("GetState"), _send_debounced_state_update
TaskSlots(op) ==
    CASE op = "auto" -> <<"a1">>
      [] op = "send" -> <<"g1">>
      [] op = "debounce" -> <<"d1", "d2">>
TaskIds == {"a1", "g1", "d1", "d2"}
ProcIds == UserIds \cup TaskIds

HandleIds == 1..MaxHandles

\* what each listener does when it is invoked
Behaviour(f) ==
    CASE f = "s_raise" -> "raise"
      [] f = "m_raise" -> "raise"
      [] f = "s_unsub" -> "unsub_self"
      [] f = "s_kill" -> "unsub_peer"
      [] f = "s_swap" -> "swap_peer"
      [] f = "m_unsub" -> "unsub_self"
      [] f = "s_add" -> "add_other"
      [] OTHER -> "ok"

\* the listener that "s_kill" and "s_swap" unsubscribe, and the one "s_swap" and
\* "s_add" register
Peer == "s_ok"
Other == "s_new"

NoProc ==
    [op |-> "idle", pc |-> "idle", retry_count |-> 0, attempt |-> 0,
     site |-> "none", h |-> 0, arg |-> "None", name |-> "none", err |-> "none",
     wake |-> 0, opens |-> 0]

\* a fan-out: the listeners registered when it began, those it called, those it
\* called though they were not registered any more, the exception that ended it
NoFan == [kind |-> "none", arg |-> "none", reg0 |-> {}, called |-> {}, stale |-> {},
          exc |-> "none"]

\* what the last connect call that ended did
NoConn == [result |-> "none", by |-> "none", opens |-> 0]

\* the last step: the call, task or handler that ended in it (op, by, name) and
\* how (result); the connect call that ended; the exception the handler of connect
\* caught; the command a caller called send_command with; the command written to
\* the transport, and whether the manager was marked connected when it was; the
\* task created; the transport operation that failed
NoObs ==
    [op |-> "none", by |-> "none", name |-> "none", result |-> "none",
     conn |-> NoConn, caught |-> "none", call |-> "none", wrote |-> "none",
     marked |-> FALSE, spawned |-> "none", failed |-> "none"]

NoHandle == [st |-> "free", notify |-> FALSE]

\* the whole state as one record: a handler's code between two awaits is a
\* function from worlds to worlds (to sets of worlds where it iterates over a
\* set of listeners); fan and obs tell of one step only and start empty
World ==
    [client |-> client, characteristic |-> characteristic,
     is_connected |-> is_connected, device |-> device, data |-> data,
     state_callbacks |-> state_callbacks, movement_callbacks |-> movement_callbacks,
     last_state_update |-> last_state_update,
     pending_state_update |-> pending_state_update,
     should_auto_reconnect |-> should_auto_reconnect,
     connection_lock |-> connection_lock, procs |-> procs, handles |-> handles,
     rx |-> rx, now |-> now, calls |-> calls, writes |-> writes, fan |-> NoFan, obs |-> NoObs,
     disc_called |-> disc_called, overflow |-> FALSE]

\* a handle nothing refers to any more and that is not open is forgotten
Referenced(w, h) ==
    w.client = h \/ \E p \in ProcIds : w.procs[p].h = h

Collect(w) ==
    [w EXCEPT !.handles =
        [h \in HandleIds |->
            IF w.handles[h].st \in {"new", "closed"} /\ ~Referenced(w, h)
            THEN NoHandle ELSE w.handles[h]]]

Becomes(w0) ==
    LET w == Collect(w0) IN
    /\ ~w.overflow
    /\ client' = w.client
    /\ characteristic' = w.characteristic
    /\ is_connected' = w.is_connected
    /\ device' = w.device
    /\ data' = w.data
    /\ state_callbacks' = w.state_callbacks
    /\ movement_callbacks' = w.movement_callbacks
    /\ last_state_update' = w.last_state_update
    /\ pending_state_update' = w.pending_state_update
    /\ should_auto_reconnect' = w.should_auto_reconnect
    /\ connection_lock' = w.connection_lock
    /\ procs' = w.procs
    /\ handles' = w.handles
    /\ rx' = w.rx
    /\ now' = w.now
    /\ calls' = w.calls
    /\ writes' = w.writes
    /\ fan' = w.fan
    /\ obs' = w.obs
    /\ disc_called' = w.disc_called

\* __init__
Fresh ==
    [client |-> 0, characteristic |-> "None", is_connected |-> FALSE,
     device |-> "None", data |-> GoCubeData, state_callbacks |-> {},
     movement_callbacks |-> {}, last_state_update |-> 0,
     pending_state_update |-> FALSE, should_auto_reconnect |-> TRUE,
     connection_lock |-> "free", procs |-> [p \in ProcIds |-> NoProc],
     handles |-> [h \in HandleIds |-> NoHandle], rx |-> <<>>,
     now |-> StateUpdateInterval,
     calls |-> <<>>, writes |-> <<>>, fan |-> NoFan, obs |-> NoObs,
     disc_called |-> FALSE, overflow |-> FALSE]

(***************************************************************************)
(* Listener fan-out                                                        *)
(***************************************************************************)
\* one listener runs: what it does to the registry
Invoke(f, reg) ==
    CASE Behaviour(f) = "unsub_self" -> reg \ {f}
      [] Behaviour(f) = "unsub_peer" -> reg \ {Peer}
      [] Behaviour(f) = "swap_peer" ->
            IF Peer \in reg THEN (reg \ {Peer}) \cup {Other} ELSE reg
      [] Behaviour(f) = "add_other" -> reg \cup {Other}
      [] OTHER -> reg

\* iteration over a copy of the set made when the loop began
NextOfSnapshot(reg, cand) == cand

\* the listeners a `for callback in <set>` may hand out next: the set iterator
\* never returns an element that was removed from the set
NextCallbacks(reg, cand) == cand \cap reg

\* `for callback in reg: callback()`: every order of iteration; the iterator raises
\* RuntimeError when the set changed size since the loop began; a listener added
\* during the loop is reached or not; with guarded, a listener's exception is
\* caught inside the loop (_notify_state_change)
RECURSIVE Iterate(_, _, _, _, _, _)
Iterate(reg, cand, n0, called, stale, guarded) ==
    IF Cardinality(reg) # n0
    THEN {[reg |-> reg, called |-> called, stale |-> stale, exc |-> "RuntimeError"]}
    ELSE IF NextCallbacks(reg, cand) = {}
    THEN {[reg |-> reg, called |-> called, stale |-> stale, exc |-> "none"]}
    ELSE UNION {
        LET reg2 == Invoke(f, reg)
            called2 == called \cup {f}
            stale2 == IF f \in reg THEN stale ELSE stale \cup {f}
        IN  IF Behaviour(f) = "raise" /\ ~guarded
            THEN {[reg |-> reg2, called |-> called2, stale |-> stale2,
                   exc |-> "Exception"]}
            ELSE UNION {Iterate(reg2, (cand \ {f}) \cup added, n0, called2, stale2,
                                guarded)
                        : added \in {{}, reg2 \ reg}}
        : f \in NextCallbacks(reg, cand)}

FanOut(reg, guarded) == Iterate(reg, reg, Cardinality(reg), {}, {}, guarded)

\* the worlds after the state listeners were fired from world w
FireState(w, guarded, kind) ==
    {[w EXCEPT !.state_callbacks = r.reg,
               !.fan = [kind |-> kind, arg |-> "none", reg0 |-> w.state_callbacks,
                        called |-> r.called, stale |-> r.stale, exc |-> r.exc]]
     : r \in FanOut(w.state_callbacks, guarded)}

(***************************************************************************)
(* Coroutines (connection.py).  A coroutine runs from one await to the     *)
(* next without interleaving; procs[p].pc names the await it is suspended  *)
(* in.  The operators below are the code between two awaits.               *)
(***************************************************************************)
Suspend(w, p, pc) == [w EXCEPT !.procs[p].pc = pc]

\* a call or task ends: result is "ok" or the exception it raises
Finish(w, p, result) ==
    [w EXCEPT !.obs = [@ EXCEPT !.op = w.procs[p].op, !.by = p,
                                !.name = w.procs[p].name, !.result = result],
              !.procs[p] = NoProc]

\* asyncio.create_task: the first free slot
FreeTasks(w, op) ==
    {i \in DOMAIN TaskSlots(op) : w.procs[TaskSlots(op)[i]].op = "idle"}

SpawnTask(w, rec) ==
    LET free == FreeTasks(w, rec.op) IN
    IF free = {} THEN [w EXCEPT !.overflow = TRUE]
    ELSE LET i == CHOOSE i \in free : \A j \in free : i <= j
         IN  [w EXCEPT !.procs[TaskSlots(rec.op)[i]] = rec, !.obs.spawned = rec.op]

\* BleakClient(device, timeout=CONNECT_TIMEOUT): a new handle
FreeHandles(w) == {h \in HandleIds : w.handles[h].st = "free"}

\* the same loop sleeping RETRY_DELAY before every attempt
AutoLoopFlatDelay(w, p, attempt) ==
    IF attempt >= MAX_RETRIES
    THEN Finish(w, p, "exhausted")
    ELSE [w EXCEPT !.procs[p].pc = "a_sleep", !.procs[p].attempt = attempt,
                   !.procs[p].wake = w.now + RETRY_DELAY]

\* _auto_reconnect: for attempt in range(MAX_RETRIES):
\* await asyncio.sleep(RETRY_DELAY * (attempt + 1)); after the loop a warning is
\* logged and the coroutine returns ("exhausted")
AutoLoop(w, p, attempt) ==
    IF attempt >= MAX_RETRIES
    THEN Finish(w, p, "exhausted")
    ELSE [w EXCEPT !.procs[p].pc = "a_sleep", !.procs[p].attempt = attempt,
                   !.procs[p].wake = w.now + RETRY_DELAY * (attempt + 1)]

\* connect returns or raises: the lock is released; the caller goes on
ConnectReturn(w, p, result) ==
    LET q == w.procs[p]
        w1 == [w EXCEPT !.connection_lock = "free",
                        !.obs.conn = [result |-> result, by |-> p, opens |-> q.opens]]
    IN  IF q.op = "connect" THEN Finish(w1, p, result)
        ELSE IF result = "ok" THEN Finish(w1, p, "ok")
        ELSE AutoLoop([w1 EXCEPT !.procs[p] = [NoProc EXCEPT !.op = q.op]],
                      p, q.attempt + 1)

\* except Exception: (after the cleanup) retry_count += 1; sleep or raise
ConnectRetry(w, p) ==
    LET n == w.procs[p].retry_count + 1
        w1 == [w EXCEPT !.procs[p].retry_count = n]
    IN  IF n < MAX_RETRIES
        THEN Suspend(w1, p, "k_retry_sleep")
        ELSE ConnectReturn(w1, p, w.procs[p].err)

\* _cleanup_connection up to its first await; the caller handles client None
CleanupCall(w, p, site) ==
    [w EXCEPT !.procs[p].pc = "cl_stop", !.procs[p].site = site,
              !.procs[p].h = w.client]

\* connect: except Exception as err: await self._cleanup_connection() ...
ConnectHandler(w, p, err) ==
    LET w1 == [w EXCEPT !.procs[p].err = err, !.obs.caught = err]
    IN  IF w1.client = 0 THEN ConnectRetry(w1, p)
        ELSE CleanupCall(w1, p, "handler")

\* the same return without the listeners
ConnectNoNotify(w, p) == {ConnectReturn(w, p, "ok")}

\* connect: for callback in self._state_callbacks: callback(); return
ConnectNotify(w, p) ==
    {IF w2.fan.exc = "none"
     THEN ConnectReturn(w2, p, "ok")
     ELSE ConnectHandler(w2, p, w2.fan.exc)
     : w2 \in FireState(w, FALSE, "connect")}

\* send_command returns (result "ok") or raises to the code that called it
SendReturn(w, p, result) ==
    LET op == w.procs[p].op
    IN  CASE op = "send" -> {Finish(w, p, result)}
          [] op = "debounce" ->
                {Finish([w EXCEPT !.pending_state_update = FALSE], p, result)}
          [] OTHER ->
                IF result = "ok"
                THEN ConnectNotify([w EXCEPT !.procs[p].name = "none"], p)
                ELSE {ConnectHandler([w EXCEPT !.procs[p].name = "none"], p, result)}

LogWrite(w, name) ==
    [w EXCEPT !.obs.wrote = name, !.obs.marked = w.is_connected,
              !.writes = IF name = "GetState" THEN Append(@, w.now) ELSE @]

\* the same task without its delay
DebounceTaskAtOnce(w) ==
    [NoProc EXCEPT !.op = "debounce", !.pc = "d_sleep", !.wake = w.now]

\* asyncio.create_task(self._send_debounced_state_update()), up to its
\* await asyncio.sleep(self._state_update_interval)
DebounceTask(w) ==
    [NoProc EXCEPT !.op = "debounce", !.pc = "d_sleep",
                   !.wake = w.now + StateUpdateInterval]

\* self._client and self._client.is_connected
ClientConnected(w) == w.client # 0 /\ w.handles[w.client].st = "open"

\* the manager is connected: send_command goes past its early returns
Online(w) == w.is_connected /\ w.characteristic # "None" /\ ClientConnected(w)

\* the same creating a deferred task for every call inside the window
SendKnownAlwaysSpawns(w, p, name) ==
    IF name = "GetState" /\ w.now - w.last_state_update < StateUpdateInterval
    THEN SendReturn(SpawnTask([w EXCEPT !.pending_state_update = TRUE],
                              DebounceTask(w)), p, "ok")
    ELSE LET w1 == IF name = "GetState"
                   THEN [w EXCEPT !.last_state_update = w.now] ELSE w
         IN  {[LogWrite(w1, name) EXCEPT !.procs[p].pc = "s_write",
                                         !.procs[p].name = name,
                                         !.procs[p].h = w.client]}

\* the same without the debounce: GetState is written like any command
SendKnownAtOnce(w, p, name) ==
    LET w1 == IF name = "GetState"
              THEN [w EXCEPT !.last_state_update = w.now] ELSE w
    IN  {[LogWrite(w1, name) EXCEPT !.procs[p].pc = "s_write",
                                    !.procs[p].name = name,
                                    !.procs[p].h = w.client]}

\* send_command after the lookup of the command: the debounce of GetState, up to
\* await self._client.write_gatt_char(...)
SendKnown(w, p, name) ==
    IF name = "GetState" /\ w.now - w.last_state_update < StateUpdateInterval
    THEN IF ~w.pending_state_update
         THEN SendReturn(SpawnTask([w EXCEPT !.pending_state_update = TRUE],
                                   DebounceTask(w)), p, "ok")
         ELSE SendReturn(w, p, "ok")
    ELSE LET w1 == IF name = "GetState"
                   THEN [w EXCEPT !.last_state_update = w.now] ELSE w
         IN  {[LogWrite(w1, name) EXCEPT !.procs[p].pc = "s_write",
                                         !.procs[p].name = name,
                                         !.procs[p].h = w.client]}

\* the same without the lookup: an unknown name is sent like a known one
SendAnyName(w, p, name) == SendKnown(w, p, name)

\* send_command at the lookup: if name not in CONFIGURATION_COMMANDS: raise ValueError
SendOnline(w, p, name) ==
    IF name \notin CONFIGURATION_COMMANDS
    THEN SendReturn(w, p, "ValueError")
    ELSE SendKnown(w, p, name)

\* the same with the first early return only: is_connected and the
\* characteristic are not looked at
SendUnlessClientDown(w, p, name) ==
    IF ~ClientConnected(w) THEN SendReturn(w, p, "ok") ELSE SendOnline(w, p, name)

\* send_command(name): nothing is done when the manager is not connected
send_command(w, p, name) ==
    IF ~w.is_connected \/ w.characteristic = "None"
    THEN SendReturn(w, p, "ok")
    ELSE IF ~ClientConnected(w)
    THEN SendReturn(w, p, "ok")
    ELSE SendOnline(w, p, name)

\* connect: self._device = device; self._client = BleakClient(...);
\* await self._client.connect()
ConnectOpen(w, p) ==
    IF FreeHandles(w) = {} THEN [w EXCEPT !.overflow = TRUE]
    ELSE LET h == CHOOSE h \in FreeHandles(w) : \A g \in FreeHandles(w) : h <= g
         IN  [w EXCEPT !.device = w.procs[p].arg, !.client = h,
                       !.handles[h] = [st |-> "new", notify |-> FALSE],
                       !.procs[p].pc = "k_open", !.procs[p].h = h,
                       !.procs[p].opens = @ + 1]

\* _cleanup_connection returns to the code that awaited it
CleanupReturn(w, p) ==
    LET site == w.procs[p].site
        w1 == [w EXCEPT !.procs[p].site = "none", !.procs[p].h = 0]
    IN  CASE site = "top" -> ConnectOpen(w1, p)
          [] site = "handler" -> ConnectRetry(w1, p)
          [] OTHER -> Finish(w1, p, "ok")

\* an exception leaves _cleanup_connection
CleanupRaise(w, p, exc) ==
    LET site == w.procs[p].site
        w1 == [w EXCEPT !.procs[p].site = "none", !.procs[p].h = 0]
    IN  CASE site = "top" -> ConnectHandler(w1, p, exc)
          [] site = "handler" -> ConnectReturn(w1, p, exc)
          [] OTHER -> Finish(w1, p, exc)

\* the same finally block keeping the device reference
CleanupKeepsDevice(w, p) ==
    LET w1 == [w EXCEPT !.client = 0, !.characteristic = "None",
                        !.is_connected = FALSE,
                        !.data = GoCubeData, !.procs[p].h = 0]
    IN  {IF w2.fan.exc = "none"
         THEN Suspend(w2, p, "cl_sleep")
         ELSE CleanupRaise(w2, p, w2.fan.exc)
         : w2 \in FireState(w1, FALSE, "cleanup")}

\* _cleanup_connection: the finally block, up to await asyncio.sleep(CLEANUP_DELAY)
CleanupFinally(w, p) ==
    LET w1 == [w EXCEPT !.client = 0, !.characteristic = "None",
                        !.is_connected = FALSE, !.device = "None",
                        !.data = GoCubeData, !.procs[p].h = 0]
    IN  {IF w2.fan.exc = "none"
         THEN Suspend(w2, p, "cl_sleep")
         ELSE CleanupRaise(w2, p, w2.fan.exc)
         : w2 \in FireState(w1, FALSE, "cleanup")}

\* connect: the head of the retry loop, up to the first await of the attempt
ConnectLoop(w0, p) ==
    LET w == [w0 EXCEPT !.procs[p].err = "none"] IN
    IF w.client = 0 THEN ConnectOpen(w, p)
    ELSE CleanupCall(w, p, "top")

\* the same call entering the retry loop without waiting for the lock
ConnectCallNoLock(w, p, dev) ==
    LET w1 == [w EXCEPT !.procs[p].arg = dev, !.procs[p].retry_count = 0,
                        !.procs[p].opens = 0, !.procs[p].err = "none"]
    IN  ConnectLoop([w1 EXCEPT !.connection_lock = p], p)

\* connect(device): async with self._connection_lock
ConnectCall(w, p, dev) ==
    LET w1 == [w EXCEPT !.procs[p].arg = dev, !.procs[p].retry_count = 0,
                        !.procs[p].opens = 0, !.procs[p].err = "none"]
    IN  IF w.connection_lock = "free"
        THEN ConnectLoop([w1 EXCEPT !.connection_lock = p], p)
        ELSE Suspend(w1, p, "k_lock")

(***************************************************************************)
(* Actions: a call made by a caller, a coroutine resumed from an await, or *)
(* a handler invoked by the transport                                      *)
(***************************************************************************)
Idle(p) == procs[p].op = "idle"
At(p, pc) == procs[p].pc = pc

\* a caller calls connect(device)
Connect(p, dev) ==
    /\ Idle(p)
    /\ Becomes(ConnectCall([World EXCEPT !.procs[p].op = "connect"], p, dev))

\* connect: the lock is acquired after waiting for it
LockAcquired(p) ==
    /\ At(p, "k_lock")
    /\ connection_lock = "free"
    /\ Becomes(ConnectLoop([World EXCEPT !.connection_lock = p], p))

\* connect: await self._client.connect() ends; then the characteristics are
\* looked for and start_notify is awaited
OpenDone(p, ok, chars) ==
    /\ At(p, "k_open")
    /\ ok => procs[p].arg # "None"
    /\ LET h == procs[p].h
           w1 == IF ok THEN [World EXCEPT !.handles[h].st = "open"] ELSE World
       IN  Becomes(IF ~ok THEN ConnectHandler(w1, p, "BleakError")
                   ELSE IF w1.client = 0 THEN ConnectHandler(w1, p, "AttributeError")
                   ELSE IF ~chars THEN ConnectHandler(w1, p, "BleakError")
                   ELSE [w1 EXCEPT !.procs[p].pc = "k_notify",
                                   !.procs[p].h = w1.client])

\* connect: await self._client.start_notify(...) ends; then the manager is
\* marked connected and DisableOrientation is sent
NotifyDone(p, ok) ==
    /\ At(p, "k_notify")
    /\ ok => handles[procs[p].h].st = "open"
    /\ LET h == procs[p].h IN
       IF ok
       THEN \E w2 \in send_command([World EXCEPT !.handles[h].notify = TRUE,
                                                 !.characteristic = "RX",
                                                 !.is_connected = TRUE],
                                   p, "DisableOrientation") : Becomes(w2)
       ELSE Becomes(ConnectHandler(World, p, "BleakError"))

\* await self._client.write_gatt_char(...) ends; a failure is logged, not raised
WriteDone(p, ok) ==
    /\ At(p, "s_write")
    /\ ok => handles[procs[p].h].st = "open"
    /\ LET w1 == [World EXCEPT !.procs[p].h = 0,
                               !.obs.failed = IF ok THEN "none" ELSE "write"]
       IN  \E w2 \in SendReturn(w1, p, "ok") : Becomes(w2)

\* connect: await asyncio.sleep(RETRY_DELAY) ends
RetrySleepDone(p) ==
    /\ At(p, "k_retry_sleep")
    /\ Becomes(ConnectLoop(World, p))

\* _cleanup_connection: await self._client.stop_notify(...) ends (a failure is
\* passed over); then self._client.disconnect() is awaited
CleanupStopDone(p, ok) ==
    /\ At(p, "cl_stop")
    /\ ok => handles[procs[p].h].st = "open"
    /\ LET h == procs[p].h
           w1 == IF ok THEN [World EXCEPT !.handles[h].notify = FALSE] ELSE World
       IN  IF w1.client = 0
           THEN \E w2 \in CleanupFinally(w1, p) : Becomes(w2)
           ELSE Becomes([w1 EXCEPT !.procs[p].pc = "cl_disc",
                                   !.procs[p].h = w1.client])

\* _cleanup_connection: await self._client.disconnect() ends (a failure is
\* logged); then the finally block runs
CleanupDisconnectDone(p, ok) ==
    /\ At(p, "cl_disc")
    /\ LET h == procs[p].h
           w1 == IF ok THEN [World EXCEPT !.handles[h] = [st |-> "closed",
                                                          notify |-> FALSE]]
                 ELSE World
       IN  \E w2 \in CleanupFinally(w1, p) : Becomes(w2)

\* _cleanup_connection: await asyncio.sleep(CLEANUP_DELAY) ends
CleanupSleepDone(p) ==
    /\ At(p, "cl_sleep")
    /\ Becomes(CleanupReturn(World, p))

\* the same call with a cleanup that does not look whether there is a client
DisconnectAlwaysCleans(p) ==
    /\ Idle(p)
    /\ LET w1 == [World EXCEPT !.should_auto_reconnect = FALSE,
                               !.disc_called = TRUE,
                               !.procs[p].op = "disconnect"]
       IN  IF w1.client # 0
           THEN Becomes([w1 EXCEPT !.procs[p].pc = "x_disc", !.procs[p].h = w1.client])
           ELSE \E w2 \in CleanupFinally([w1 EXCEPT !.procs[p].site = "disc"], p) :
                    Becomes(w2)

\* a caller calls disconnect(): the flag is cleared; with a client its disconnect()
\* is awaited; without one _cleanup_connection does nothing and the call returns
Disconnect(p) ==
    /\ Idle(p)
    /\ LET w1 == [World EXCEPT !.should_auto_reconnect = FALSE,
                               !.disc_called = TRUE,
                               !.procs[p].op = "disconnect"]
       IN  Becomes(IF w1.client # 0
                   THEN [w1 EXCEPT !.procs[p].pc = "x_disc", !.procs[p].h = w1.client]
                   ELSE Finish(w1, p, "ok"))

\* disconnect: await self._client.disconnect() ends; then cleanup is awaited
DisconnectDone(p, ok) ==
    /\ At(p, "x_disc")
    /\ LET h == procs[p].h
           w1 == [World EXCEPT !.procs[p].h = 0]
           w2 == [w1 EXCEPT !.handles[h] = [st |-> "closed", notify |-> FALSE]]
       IN  Becomes(IF ~ok THEN Finish(w1, p, "BleakError")
                   ELSE IF w2.client = 0 THEN Finish(w2, p, "ok")
                   ELSE CleanupCall(w2, p, "disc"))

\* asyncio.create_task(self._auto_reconnect())
AutoTask == [NoProc EXCEPT !.op = "auto", !.pc = "a_start"]

\* the same handler without the test of should_auto_reconnect
HandleDisconnectAlways(w) ==
    {IF w2.fan.exc # "none"
     THEN [w2 EXCEPT !.obs = [@ EXCEPT !.op = "drop", !.by = "transport",
                                       !.name = "none", !.result = w2.fan.exc]]
     ELSE LET w3 == [w2 EXCEPT !.obs = [@ EXCEPT !.op = "drop", !.by = "transport",
                                                 !.name = "none", !.result = "ok"]]
          IN  IF w3.device # "None" THEN SpawnTask(w3, AutoTask) ELSE w3
     : w2 \in FireState([w EXCEPT !.is_connected = FALSE], TRUE, "drop")}

\* _handle_disconnect(client): the flag is cleared, the listeners are fired, and
\* _auto_reconnect is made a task if auto-reconnect is on and a device is known
_handle_disconnect(w) ==
    {IF w2.fan.exc # "none"
     THEN [w2 EXCEPT !.obs = [@ EXCEPT !.op = "drop", !.by = "transport",
                                       !.name = "none", !.result = w2.fan.exc]]
     ELSE LET w3 == [w2 EXCEPT !.obs = [@ EXCEPT !.op = "drop", !.by = "transport",
                                                 !.name = "none", !.result = "ok"]]
          IN  IF w3.should_auto_reconnect /\ w3.device # "None"
              THEN SpawnTask(w3, AutoTask)
              ELSE w3
     : w2 \in FireState([w EXCEPT !.is_connected = FALSE], TRUE, "drop")}

\* the transport reports that an open handle dropped
HandleDisconnect(h) ==
    /\ handles[h].st = "open"
    /\ \E w2 \in _handle_disconnect(
                    [World EXCEPT !.handles[h] = [st |-> "closed", notify |-> FALSE]]) :
           Becomes(w2)

\* _auto_reconnect, from its start to the first sleep
AutoBegin(w, p) ==
    IF ~w.should_auto_reconnect \/ w.device = "None"
    THEN Finish(w, p, "ok")
    ELSE AutoLoop(w, p, 0)

\* the task created by _handle_disconnect starts to run
AutoStart(p) ==
    /\ At(p, "a_start")
    /\ Becomes(AutoBegin(World, p))

\* _auto_reconnect: await asyncio.sleep(RETRY_DELAY * (attempt + 1)) ends
AutoWake(p) ==
    /\ At(p, "a_sleep")
    /\ Becomes(IF ~should_auto_reconnect
               THEN Finish(World, p, "ok")
               ELSE ConnectCall(World, p, device))

\* the same on a clock: the sleep ends when its time has passed
AutoWakeOnTime(p) ==
    /\ now >= procs[p].wake
    /\ AutoWake(p)

\* time passes until a sleep of _auto_reconnect is over
Elapse ==
    \E p \in ProcIds :
        /\ At(p, "a_sleep")
        /\ now < procs[p].wake
        /\ procs[p].wake <= Horizon
        /\ Becomes([World EXCEPT !.now = procs[p].wake])

\* the same call starting the sequence whatever the flag was
EnableAlwaysReconnects(p) ==
    /\ Idle(p)
    /\ LET w1 == [World EXCEPT !.should_auto_reconnect = TRUE,
                               !.disc_called = FALSE,
                               !.procs[p].op = "enable"]
       IN  Becomes(IF ~w1.is_connected /\ w1.device # "None"
                   THEN AutoBegin(w1, p)
                   ELSE Finish(w1, p, "ok"))

\* a caller calls enable_auto_reconnect()
EnableAutoReconnect(p) ==
    /\ Idle(p)
    /\ LET was_disabled == ~should_auto_reconnect
           w1 == [World EXCEPT !.should_auto_reconnect = TRUE,
                               !.disc_called = FALSE,
                               !.procs[p].op = "enable"]
       IN  Becomes(IF was_disabled /\ ~w1.is_connected /\ w1.device # "None"
                   THEN AutoBegin(w1, p)
                   ELSE Finish(w1, p, "ok"))

\* register_callback(f)
Register(f) ==
    /\ f \notin state_callbacks
    /\ Becomes([World EXCEPT !.state_callbacks = @ \cup {f}])

\* the unsubscribe that register_callback(f) returned is called
Unsubscribe(f) ==
    /\ f \in state_callbacks
    /\ Becomes([World EXCEPT !.state_callbacks = @ \ {f}])

\* a caller calls add_movement_callback(f) / remove_movement_callback(f)
AddMovement(f) ==
    /\ f \notin movement_callbacks
    /\ Becomes([World EXCEPT !.movement_callbacks = @ \cup {f}])

RemoveMovement(f) ==
    /\ f \in movement_callbacks
    /\ Becomes([World EXCEPT !.movement_callbacks = @ \ {f}])

\* a call of the registry that returns in the step
Called(w, op, f) ==
    [w EXCEPT !.obs = [@ EXCEPT !.op = op, !.by = "caller", !.name = f,
                                !.result = "ok"]]

\* self._state_callbacks.add(callback)
register_callback(w, f) == [w EXCEPT !.state_callbacks = @ \cup {f}]

\* an unsubscribe that removes the listener from both registries
UnsubscribeBoth(w, f) ==
    [w EXCEPT !.state_callbacks = @ \ {f}, !.movement_callbacks = @ \ {f}]

\* if callback in self._state_callbacks: self._state_callbacks.remove(callback)
unsubscribe(w, f) ==
    IF f \in w.state_callbacks THEN [w EXCEPT !.state_callbacks = @ \ {f}] ELSE w

\* self._movement_callbacks.add(callback)
add_movement_callback(w, f) == [w EXCEPT !.movement_callbacks = @ \cup {f}]

\* self._movement_callbacks.discard(callback)
remove_movement_callback(w, f) == [w EXCEPT !.movement_callbacks = @ \ {f}]

\* the calls of the registry, whether f is registered or not; an unsubscribe is
\* called again and again
RegisterCallback(f) == Becomes(Called(register_callback(World, f), "register", f))

CallUnsubscribe(f) == Becomes(Called(unsubscribe(World, f), "unsubscribe", f))

AddMovementCallback(f) ==
    Becomes(Called(add_movement_callback(World, f), "add_movement", f))

RemoveMovementCallback(f) ==
    Becomes(Called(remove_movement_callback(World, f), "remove_movement", f))

\* a caller calls send_command(name)
SendCommand(p, name) ==
    /\ Idle(p)
    /\ name = "GetState" /\ Online(World) => Len(calls) < MaxCalls
    /\ LET w1 == [World EXCEPT !.procs[p].op = "send", !.procs[p].name = name,
                               !.obs.call = name,
                               !.calls = IF name = "GetState" /\ Online(World)
                                         THEN Append(@, now) ELSE @]
       IN  \E w2 \in send_command(w1, p, name) : Becomes(w2)

\* the task created for send_command("GetState") after a rotation starts to run
SendTask == [NoProc EXCEPT !.op = "send", !.pc = "s_start", !.name = "GetState"]

SendStart(p) ==
    /\ At(p, "s_start")
    /\ \E w2 \in send_command(World, p, "GetState") : Becomes(w2)

\* _send_debounced_state_update: await asyncio.sleep(...) ends
DebounceWake(p) ==
    /\ At(p, "d_sleep")
    /\ now >= procs[p].wake
    /\ IF pending_state_update
       THEN \E w2 \in send_command([World EXCEPT !.procs[p].name = "GetState"],
                                   p, "GetState") : Becomes(w2)
       ELSE Becomes(Finish(World, p, "ok"))

\* 100 ms pass
Tick ==
    /\ now < MaxTime
    /\ Becomes([World EXCEPT !.now = @ + 1])

\* the for loop over self._movement_callbacks
FireMove(w, desc) ==
    {[w EXCEPT !.movement_callbacks = r.reg,
               !.fan = [kind |-> "move", arg |-> desc, reg0 |-> w.movement_callbacks,
                        called |-> r.called, stale |-> r.stale, exc |-> r.exc]]
     : r \in FanOut(w.movement_callbacks, FALSE)}

Handled(w) ==
    [w EXCEPT !.obs = [@ EXCEPT !.op = "notification", !.by = "transport",
                                !.name = "none", !.result = "ok"]]

\* the same clause, raising again what it caught
HandlerReraise(w, exc) == [Handled(w) EXCEPT !.obs.result = exc]

\* except Exception as err: _LOGGER.error(...): the exception is logged and the
\* handler returns
HandlerExcept(w, exc) == Handled(w)

\* a handler that fires the state listeners whatever the frame
NotifyOnEveryFrame(w, frame) ==
    {Handled(w2) : w2 \in FireState(w, TRUE, "state")}

\* _notification_handler(sender, data); every exception is caught and logged:
\* the IndexError of data[3], the exception of a move listener, and the
\* RuntimeError of a loop over a set that changed size
_notification_handler(w, frame) ==
    IF Len(frame) < MinFrameLen THEN {Handled(w)}
    ELSE LET message_type == frame[3] IN
         CASE message_type = MSG_TYPE_ROTATION ->
                IF Len(frame) < 4 THEN {HandlerExcept(w, "IndexError")}
                ELSE {IF w2.fan.exc = "none"
                      THEN Handled(SpawnTask(w2, SendTask))
                      ELSE HandlerExcept(w2, w2.fan.exc)
                      : w2 \in FireMove(w, FACE_ROTATION_MAP(frame[4]))}
           [] message_type = MSG_TYPE_STATE ->
                {IF w2.fan.exc = "none" THEN Handled(w2)
                 ELSE HandlerExcept(w2, w2.fan.exc)
                 : w2 \in
                    FireState([w EXCEPT !.data = parse_state_message(@, frame)],
                              TRUE, "state")}
           [] message_type = MSG_TYPE_BATTERY ->
                {IF w2.fan.exc = "none" THEN Handled(w2)
                 ELSE HandlerExcept(w2, w2.fan.exc)
                 : w2 \in
                    FireState([w EXCEPT !.data = parse_battery_message(@, frame)],
                              TRUE, "battery")}
           [] OTHER -> {Handled(w)}

\* the transport delivers a frame of a handle that notifies
NotificationHandler(frame) ==
    /\ \E h \in HandleIds : handles[h].st = "open" /\ handles[h].notify
    /\ \E w2 \in _notification_handler([World EXCEPT !.rx = frame], frame) : Becomes(w2)

(***************************************************************************)
(* Initial states                                                          *)
(***************************************************************************)
Is(w) ==
    /\ client = w.client
    /\ characteristic = w.characteristic
    /\ is_connected = w.is_connected
    /\ device = w.device
    /\ data = w.data
    /\ state_callbacks = w.state_callbacks
    /\ movement_callbacks = w.movement_callbacks
    /\ last_state_update = w.last_state_update
    /\ pending_state_update = w.pending_state_update
    /\ should_auto_reconnect = w.should_auto_reconnect
    /\ connection_lock = w.connection_lock
    /\ procs = w.procs
    /\ handles = w.handles
    /\ rx = w.rx
    /\ now = w.now
    /\ calls = w.calls
    /\ writes = w.writes
    /\ fan = w.fan
    /\ obs = w.obs
    /\ disc_called = w.disc_called

\* the state after connect("cube") succeeded at its first attempt on a new manager
Connected ==
    [Fresh EXCEPT !.client = 1, !.characteristic = "RX", !.is_connected = TRUE,
                  !.device = "cube",
                  !.handles[1] = [st |-> "open", notify |-> TRUE]]

Init == Is(Fresh)

\* how a transport operation on handle h may end: it succeeds on an open handle only
Results(h, outcomes) ==
    IF h # 0 /\ handles[h].st = "open" THEN outcomes ELSE {FALSE}

(***************************************************************************)
(* The connection lifecycle: a caller connects, disconnects and switches   *)
(* auto-reconnect; every transport operation may fail; the link may drop   *)
(***************************************************************************)
Next ==
    \/ Connect("u1", "cube")
    \/ \E p \in ProcIds : LockAcquired(p)
    \/ \E p \in ProcIds, ok \in BOOLEAN, chars \in BOOLEAN : OpenDone(p, ok, chars)
    \/ \E p \in ProcIds : \E ok \in Results(procs[p].h, BOOLEAN) : NotifyDone(p, ok)
    \/ \E p \in ProcIds : \E ok \in Results(procs[p].h, BOOLEAN) : WriteDone(p, ok)
    \/ \E p \in ProcIds : RetrySleepDone(p)
    \/ \E p \in ProcIds : \E ok \in Results(procs[p].h, BOOLEAN) : CleanupStopDone(p, ok)
    \/ \E p \in ProcIds, ok \in BOOLEAN : CleanupDisconnectDone(p, ok)
    \/ \E p \in ProcIds : CleanupSleepDone(p)
    \/ Disconnect("u1")
    \/ \E p \in ProcIds, ok \in BOOLEAN : DisconnectDone(p, ok)
    \/ \E h \in HandleIds : HandleDisconnect(h)
    \/ \E p \in ProcIds : AutoStart(p)
    \/ \E p \in ProcIds : AutoWake(p)
    \/ EnableAutoReconnect("u1")

Spec == Init /\ [][Next]_vars

(***************************************************************************)
(* The lifecycle with a listener that raises: the transport operations     *)
(* succeed on every open handle                                            *)
(***************************************************************************)
NextRaise ==
    \/ Connect("u1", "cube")
    \/ \E p \in ProcIds : LockAcquired(p)
    \/ \E p \in ProcIds : OpenDone(p, TRUE, TRUE)
    \/ \E p \in ProcIds : \E ok \in Results(procs[p].h, {TRUE}) : NotifyDone(p, ok)
    \/ \E p \in ProcIds : \E ok \in Results(procs[p].h, {TRUE}) : WriteDone(p, ok)
    \/ \E p \in ProcIds : RetrySleepDone(p)
    \/ \E p \in ProcIds : \E ok \in Results(procs[p].h, {TRUE}) : CleanupStopDone(p, ok)
    \/ \E p \in ProcIds : CleanupDisconnectDone(p, TRUE)
    \/ \E p \in ProcIds : CleanupSleepDone(p)
    \/ Disconnect("u1")
    \/ \E p \in ProcIds : DisconnectDone(p, TRUE)
    \/ \E h \in HandleIds : HandleDisconnect(h)
    \/ \E p \in ProcIds : AutoStart(p)
    \/ \E p \in ProcIds : AutoWake(p)
    \/ EnableAutoReconnect("u1")
    \/ Register("s_raise")

SpecRaise == Init /\ [][NextRaise]_vars

(***************************************************************************)
(* A transport on which no open succeeds: two callers connect and          *)
(* disconnect, a listener that raises may be registered                    *)
(***************************************************************************)
NextOpenFails ==
    \/ \E p \in UserIds : Connect(p, "cube")
    \/ \E p \in ProcIds : LockAcquired(p)
    \/ \E p \in ProcIds : OpenDone(p, FALSE, FALSE)
    \/ \E p \in ProcIds : RetrySleepDone(p)
    \/ \E p \in ProcIds : CleanupStopDone(p, FALSE)
    \/ \E p \in ProcIds, ok \in BOOLEAN : CleanupDisconnectDone(p, ok)
    \/ \E p \in ProcIds : CleanupSleepDone(p)
    \/ \E p \in UserIds : Disconnect(p)
    \/ \E p \in ProcIds, ok \in BOOLEAN : DisconnectDone(p, ok)
    \/ Register("s_raise")
    \/ Unsubscribe("s_raise")

SpecOpenFails == Init /\ [][NextOpenFails]_vars

(***************************************************************************)
(* Commands on a clock: one caller connects, another sends commands,       *)
(* 100 ms pass at a time                                                   *)
(***************************************************************************)
CommandNames == {"GetState", "LedToggle", "Bogus"}

NextCmd ==
    \/ Connect("u1", "cube")
    \/ \E p \in ProcIds : OpenDone(p, TRUE, TRUE)
    \/ \E p \in ProcIds : \E ok \in Results(procs[p].h, {TRUE}) : NotifyDone(p, ok)
    \/ \E p \in ProcIds : \E ok \in Results(procs[p].h, BOOLEAN) : WriteDone(p, ok)
    \/ \E name \in CommandNames : SendCommand("u2", name)
    \/ \E p \in ProcIds : DebounceWake(p)
    \/ Tick

SpecCmd == Init /\ [][NextCmd]_vars

(***************************************************************************)
(* Commands on a manager that goes online and offline: one caller connects *)
(* and disconnects, another sends commands; the clock stands still         *)
(***************************************************************************)
NextOffline ==
    \/ Connect("u1", "cube")
    \/ \E p \in ProcIds : OpenDone(p, TRUE, TRUE)
    \/ \E p \in ProcIds : \E ok \in Results(procs[p].h, {TRUE}) : NotifyDone(p, ok)
    \/ \E p \in ProcIds : \E ok \in Results(procs[p].h, BOOLEAN) : WriteDone(p, ok)
    \/ \E p \in ProcIds : \E ok \in Results(procs[p].h, {TRUE}) : CleanupStopDone(p, ok)
    \/ \E p \in ProcIds : CleanupDisconnectDone(p, TRUE)
    \/ \E p \in ProcIds : CleanupSleepDone(p)
    \/ Disconnect("u1")
    \/ \E p \in ProcIds : DisconnectDone(p, TRUE)
    \/ \E name \in CommandNames : SendCommand("u2", name)

SpecOffline == Init /\ [][NextOffline]_vars

(***************************************************************************)
(* Frames                                                                  *)
(***************************************************************************)
\* the 9 bytes of a face: its identifier byte and its 8 stickers
Face(id, stickers) == <<id>> \o stickers
Uniform(c) == [k \in 1..8 |-> c]
With(stickers, k, c) == [stickers EXCEPT ![k] = c]

\* faces in the colour c and next to it: solved, another identifier byte, the
\* first, a middle and the last sticker of another colour, bytes that are no colour
FaceVariants(c) ==
    LET d == (c + 1) % 6 IN
    {Face(c, Uniform(c)), Face(d, Uniform(c)),
     Face(c, With(Uniform(c), 1, d)), Face(c, With(Uniform(c), 5, d)),
     Face(c, With(Uniform(c), 8, d)), Face(d, With(Uniform(c), 8, d)),
     Face(c, Uniform(9)), Face(c, With(Uniform(9), 4, 200)),
     Face(c, With(Uniform(c), 5, 9))}

RECURSIVE Concat(_)
Concat(ss) == IF ss = <<>> THEN <<>> ELSE Head(ss) \o Concat(Tail(ss))

SolvedFaces == [i \in 1..6 |-> Face(i - 1, Uniform(i - 1))]

\* a state frame: prefix, length, type, 6 faces, checksum and suffix
StateFrame(faces, tail) == <<MSG_PREFIX, 60, MSG_TYPE_STATE>> \o Concat(faces) \o tail

\* a solved cube with one face replaced by each of its variants, and with two
\* faces replaced; one frame of 59 bytes
TwoUnsolved(i, j) ==
    [SolvedFaces EXCEPT ![i] = Face(i - 1, With(Uniform(i - 1), 3, 6 - i)),
                        ![j] = Face(j - 1, With(Uniform(j - 1), 8, 6 - j))]

StateFrames ==
    UNION {{StateFrame([SolvedFaces EXCEPT ![i] = f], <<0, 13, 10>>)
            : f \in FaceVariants(i - 1)} : i \in 1..6}
    \cup {StateFrame(TwoUnsolved(1, j), tail)
            : j \in {4, 6}, tail \in {<<0, 13, 10>>, <<0, 13, 10, 0>>}}
    \cup {StateFrame([SolvedFaces EXCEPT ![1] = Face(1, Uniform(0)),
                                         ![2] = Face(1, With(Uniform(1), 8, 2))],
                      <<0, 13, 10>>)}
    \cup {StateFrame(SolvedFaces, <<0, 13>>)}

\* battery frames: the sum of the first four bytes below and above 256, the
\* fifth byte equal to it modulo 256, one more, or the level again
BatteryFrame(b0, b3) ==
    {<<b0, 7, MSG_TYPE_BATTERY, b3, b4>> \o tail
        : b4 \in {(b0 + 7 + MSG_TYPE_BATTERY + b3) % 256,
                  (b0 + 7 + MSG_TYPE_BATTERY + b3 + 1) % 256, b3},
          tail \in {<<>>, <<13, 10>>}}

BatteryFrames ==
    UNION {BatteryFrame(b0, b3) : b0 \in {MSG_PREFIX, 200}, b3 \in {0, 77, 100, 255}}
    \cup {<<MSG_PREFIX, 7, MSG_TYPE_BATTERY, 77>>}

RotationFrames ==
    {<<MSG_PREFIX, 6, MSG_TYPE_ROTATION, 3, 0, 76, 13, 10>>,
     <<MSG_PREFIX, 0, MSG_TYPE_ROTATION, 0>>}

\* frames too short for their type: less than 3 bytes, a rotation without byte 3,
\* a state frame of 59 bytes, a battery frame of 4 bytes
ShortFrames ==
    {<<>>, <<MSG_PREFIX, 6>>, <<MSG_PREFIX, 6, MSG_TYPE_ROTATION>>,
     StateFrame(TwoUnsolved(1, 4), <<0, 13>>),
     <<MSG_PREFIX, 7, MSG_TYPE_BATTERY, 50>>}

\* frames of the other types of the protocol, and of types it does not have
OtherFrames ==
    {<<MSG_PREFIX, 6, MSG_TYPE_ORIENTATION, 0, 0, 0>>,
     <<MSG_PREFIX, 6, MSG_TYPE_STATS, 0, 0, 0>>,
     <<MSG_PREFIX, 6, MSG_TYPE_CUBE_TYPE, 1>>,
     <<MSG_PREFIX, 6, 0>>, <<MSG_PREFIX, 6, 200, 1, 2>>}

(***************************************************************************)
(* The codec under the frames of a cube: a connected manager is given      *)
(* state and battery frames                                                *)
(***************************************************************************)
InitConnected == Is(Connected)

NextCodec ==
    \/ \E frame \in StateFrames \cup BatteryFrames : NotificationHandler(frame)

SpecCodec == InitConnected /\ [][NextCodec]_vars

(***************************************************************************)
(* Notifications of a connected cube: listeners of both kinds come and go, *)
(* some raise; the send_command("GetState") task of a rotation runs        *)
(***************************************************************************)
NotifyFrames ==
    RotationFrames \cup ShortFrames \cup OtherFrames
    \cup {StateFrame(SolvedFaces, <<0, 13, 10>>),
          <<MSG_PREFIX, 7, MSG_TYPE_BATTERY, 77, 131, 13, 10>>}

NextNotify ==
    \/ \E frame \in NotifyFrames : NotificationHandler(frame)
    \/ \E f \in {"s_ok", "s_raise"} : Register(f)
    \/ \E f \in {"s_ok", "s_raise"} : Unsubscribe(f)
    \/ \E f \in {"m_ok", "m_raise"} : AddMovement(f)
    \/ \E f \in {"m_ok", "m_raise"} : RemoveMovement(f)
    \/ \E p \in ProcIds : SendStart(p)
    \/ \E p \in ProcIds : \E ok \in Results(procs[p].h, BOOLEAN) : WriteDone(p, ok)

SpecNotify == InitConnected /\ [][NextNotify]_vars

(***************************************************************************)
(* Connect against disconnect: one caller connects, another disconnects,   *)
(* the link drops and auto-reconnect runs; every transport operation       *)
(* succeeds unless its handle was closed meanwhile; battery frames come    *)
(* while no call of connect is in progress                                 *)
(***************************************************************************)
\* p is in connect, between the acquisition of the lock and its return or raise
InConnect(p) ==
    \/ procs[p].pc \in {"k_open", "k_notify", "k_retry_sleep"}
    \/ procs[p].pc \in {"cl_stop", "cl_disc", "cl_sleep"}
            /\ procs[p].site \in {"top", "handler"}
    \/ procs[p].pc = "s_write" /\ procs[p].op \notin {"send", "debounce"}

\* no call of connect is in progress
NoConnectCall == \A p \in ProcIds : ~InConnect(p) /\ ~At(p, "k_lock")

\* how the open of handle h may end: it succeeds only if h was not closed meanwhile
Opens(h, outcomes) ==
    IF h # 0 /\ handles[h].st = "new" THEN outcomes ELSE {FALSE}

NextRace ==
    \/ Connect("u1", "cube")
    \/ \E p \in ProcIds : LockAcquired(p)
    \/ \E p \in ProcIds : \E ok \in Opens(procs[p].h, {TRUE}) : OpenDone(p, ok, TRUE)
    \/ \E p \in ProcIds : \E ok \in Results(procs[p].h, {TRUE}) : NotifyDone(p, ok)
    \/ \E p \in ProcIds : \E ok \in Results(procs[p].h, {TRUE}) : WriteDone(p, ok)
    \/ \E p \in ProcIds : RetrySleepDone(p)
    \/ \E p \in ProcIds : \E ok \in Results(procs[p].h, {TRUE}) : CleanupStopDone(p, ok)
    \/ \E p \in ProcIds : CleanupDisconnectDone(p, TRUE)
    \/ \E p \in ProcIds : CleanupSleepDone(p)
    \/ Disconnect("u2")
    \/ \E p \in ProcIds : DisconnectDone(p, TRUE)
    \/ \E h \in HandleIds : HandleDisconnect(h)
    \/ \E p \in ProcIds : AutoStart(p)
    \/ \E p \in ProcIds : AutoWake(p)
    \/ NoConnectCall
            /\ NotificationHandler(<<MSG_PREFIX, 7, MSG_TYPE_BATTERY, 77, 131, 13, 10>>)

SpecRace == Init /\ [][NextRace]_vars

(***************************************************************************)
(* Notifications under listeners that raise, unsubscribe themselves and    *)
(* register another listener while they are called                         *)
(***************************************************************************)
\* one frame of each type, one of another type, a rotation without byte 3 and a
\* frame of 2 bytes
HandlerFrames ==
    {<<MSG_PREFIX, 0, MSG_TYPE_ROTATION, 0>>,
     StateFrame(SolvedFaces, <<0, 13, 10>>),
     <<MSG_PREFIX, 7, MSG_TYPE_BATTERY, 77, 131, 13, 10>>,
     <<MSG_PREFIX, 6, MSG_TYPE_ORIENTATION, 0, 0, 0>>,
     <<MSG_PREFIX, 6, MSG_TYPE_ROTATION>>,
     <<MSG_PREFIX, 6>>}

NextHandler ==
    \/ \E frame \in HandlerFrames : NotificationHandler(frame)
    \/ \E f \in {"s_raise", "s_unsub", "s_add"} : Register(f)
    \/ \E f \in {"s_raise", "s_unsub", "s_add", "s_new"} : Unsubscribe(f)
    \/ \E f \in {"m_raise", "m_unsub"} : AddMovement(f)
    \/ \E f \in {"m_raise", "m_unsub"} : RemoveMovement(f)
    \/ \E p \in ProcIds : SendStart(p)
    \/ \E p \in ProcIds : \E ok \in Results(procs[p].h, BOOLEAN) : WriteDone(p, ok)

SpecHandler == InitConnected /\ [][NextHandler]_vars

(***************************************************************************)
(* Listeners that unsubscribe other listeners while the listeners are      *)
(* fired: by a state frame, by a drop, and by the cleanup and the connect  *)
(* of the auto-reconnect that follows the drop                             *)
(***************************************************************************)
NextUnsub ==
    \/ \E p \in ProcIds : OpenDone(p, TRUE, TRUE)
    \/ \E p \in ProcIds : \E ok \in Results(procs[p].h, {TRUE}) : NotifyDone(p, ok)
    \/ \E p \in ProcIds : \E ok \in Results(procs[p].h, {TRUE}) : WriteDone(p, ok)
    \/ \E p \in ProcIds : RetrySleepDone(p)
    \/ \E p \in ProcIds : \E ok \in Results(procs[p].h, {TRUE}) : CleanupStopDone(p, ok)
    \/ \E p \in ProcIds : CleanupDisconnectDone(p, TRUE)
    \/ \E p \in ProcIds : CleanupSleepDone(p)
    \/ \E h \in HandleIds : HandleDisconnect(h)
    \/ \E p \in ProcIds : AutoStart(p)
    \/ \E p \in ProcIds : AutoWake(p)
    \/ NotificationHandler(StateFrame(SolvedFaces, <<0, 13, 10>>))
    \/ \E f \in {"s_ok", "s_swap", "s_kill"} : Register(f)
    \/ \E f \in {"s_ok", "s_swap", "s_kill", "s_new"} : Unsubscribe(f)

SpecUnsub == InitConnected /\ [][NextUnsub]_vars

(***************************************************************************)
(* Auto-reconnect on a clock: the link drops, the sequence sleeps and      *)
(* calls connect, whose open may fail; a caller disconnects, which clears  *)
(* the auto-reconnect flag; a listener that raises may be registered.      *)
(* Time passes in the sleeps of the sequence only.                         *)
(***************************************************************************)
NextAuto ==
    \/ \E p \in ProcIds, ok \in BOOLEAN : OpenDone(p, ok, TRUE)
    \/ \E p \in ProcIds : \E ok \in Results(procs[p].h, {TRUE}) : NotifyDone(p, ok)
    \/ \E p \in ProcIds : \E ok \in Results(procs[p].h, {TRUE}) : WriteDone(p, ok)
    \/ \E p \in ProcIds : RetrySleepDone(p)
    \/ \E p \in ProcIds : \E ok \in Results(procs[p].h, {TRUE}) : CleanupStopDone(p, ok)
    \/ \E p \in ProcIds : CleanupDisconnectDone(p, TRUE)
    \/ \E p \in ProcIds : CleanupSleepDone(p)
    \/ Disconnect("u1")
    \/ \E p \in ProcIds : DisconnectDone(p, TRUE)
    \/ \E h \in HandleIds : HandleDisconnect(h)
    \/ \E p \in ProcIds : AutoStart(p)
    \/ \E p \in ProcIds : AutoWakeOnTime(p)
    \/ Elapse
    \/ Register("s_raise")

SpecAuto == InitConnected /\ [][NextAuto]_vars

(***************************************************************************)
(* The two registries: the same functions are registered as state          *)
(* listeners and as move listeners, and removed, in every order            *)
(***************************************************************************)
Functions == {"f1", "f2", "f3", "f4"}

NextRegistry ==
    \/ \E f \in Functions : RegisterCallback(f)
    \/ \E f \in Functions : CallUnsubscribe(f)
    \/ \E f \in Functions : AddMovementCallback(f)
    \/ \E f \in Functions : RemoveMovementCallback(f)

SpecRegistry == Init /\ [][NextRegistry]_vars

(***************************************************************************)
(* One caller connects and disconnects while listeners come and go: every  *)
(* transport operation of an attempt may fail; the link does not drop      *)
(***************************************************************************)
NextAttempt ==
    \/ Connect("u1", "cube")
    \/ \E p \in ProcIds, ok \in BOOLEAN, chars \in BOOLEAN : OpenDone(p, ok, chars)
    \/ \E p \in ProcIds : \E ok \in Results(procs[p].h, BOOLEAN) : NotifyDone(p, ok)
    \/ \E p \in ProcIds : \E ok \in Results(procs[p].h, BOOLEAN) : WriteDone(p, ok)
    \/ \E p \in ProcIds : RetrySleepDone(p)
    \/ \E p \in ProcIds : \E ok \in Results(procs[p].h, BOOLEAN) : CleanupStopDone(p, ok)
    \/ \E p \in ProcIds, ok \in BOOLEAN : CleanupDisconnectDone(p, ok)
    \/ \E p \in ProcIds : CleanupSleepDone(p)
    \/ Disconnect("u1")
    \/ \E p \in ProcIds, ok \in BOOLEAN : DisconnectDone(p, ok)
    \/ \E f \in {"s_ok", "s_raise"} : Register(f)
    \/ \E f \in {"s_ok", "s_raise"} : Unsubscribe(f)

SpecAttempt == Init /\ [][NextAttempt]_vars

(***************************************************************************)
(* GetState from every side on a clock: a caller calls it, rotation frames *)
(* create the task that calls it, the debounce task calls it; 100 ms pass  *)
(* at a time                                                               *)
(***************************************************************************)
NextDebounce ==
    \/ SendCommand("u2", "GetState")
    \/ NotificationHandler(<<MSG_PREFIX, 0, MSG_TYPE_ROTATION, 0>>)
    \/ \E p \in ProcIds : SendStart(p)
    \/ \E p \in ProcIds : DebounceWake(p)
    \/ \E p \in ProcIds : \E ok \in Results(procs[p].h, BOOLEAN) : WriteDone(p, ok)
    \/ Tick

SpecDebounce == InitConnected /\ [][NextDebounce]_vars

(***************************************************************************)
(* Auto-reconnect switched off and on: one caller connects, disconnects    *)
(* and enables auto-reconnect, the link drops; the transport operations    *)
(* succeed on every open handle, but for the close of disconnect()         *)
(***************************************************************************)
NextEnable ==
    \/ Connect("u1", "cube")
    \/ \E p \in ProcIds : LockAcquired(p)
    \/ \E p \in ProcIds : \E ok \in Opens(procs[p].h, {TRUE}) : OpenDone(p, ok, TRUE)
    \/ \E p \in ProcIds : \E ok \in Results(procs[p].h, {TRUE}) : NotifyDone(p, ok)
    \/ \E p \in ProcIds : \E ok \in Results(procs[p].h, {TRUE}) : WriteDone(p, ok)
    \/ \E p \in ProcIds : RetrySleepDone(p)
    \/ \E p \in ProcIds : \E ok \in Results(procs[p].h, {TRUE}) : CleanupStopDone(p, ok)
    \/ \E p \in ProcIds : CleanupDisconnectDone(p, TRUE)
    \/ \E p \in ProcIds : CleanupSleepDone(p)
    \/ Disconnect("u1")
    \/ \E p \in ProcIds, ok \in BOOLEAN : DisconnectDone(p, ok)
    \/ \E h \in HandleIds : HandleDisconnect(h)
    \/ \E p \in ProcIds : AutoStart(p)
    \/ \E p \in ProcIds : AutoWake(p)
    \/ EnableAutoReconnect("u1")

SpecEnable == Init /\ [][NextEnable]_vars

(***************************************************************************)
(* Frames at any time: one caller connects and disconnects, every          *)
(* transport operation may fail, and the transport delivers battery and    *)
(* state frames whenever a handle is open and notifies                     *)
(***************************************************************************)
NextFrames ==
    \/ Connect("u1", "cube")
    \/ \E p \in ProcIds, ok \in BOOLEAN : OpenDone(p, ok, TRUE)
    \/ \E p \in ProcIds : \E ok \in Results(procs[p].h, BOOLEAN) : NotifyDone(p, ok)
    \/ \E p \in ProcIds : \E ok \in Results(procs[p].h, BOOLEAN) : WriteDone(p, ok)
    \/ \E p \in ProcIds : RetrySleepDone(p)
    \/ \E p \in ProcIds : \E ok \in Results(procs[p].h, BOOLEAN) : CleanupStopDone(p, ok)
    \/ \E p \in ProcIds, ok \in BOOLEAN : CleanupDisconnectDone(p, ok)
    \/ \E p \in ProcIds : CleanupSleepDone(p)
    \/ Disconnect("u1")
    \/ \E p \in ProcIds, ok \in BOOLEAN : DisconnectDone(p, ok)
    \/ \E frame \in {StateFrame(SolvedFaces, <<0, 13, 10>>),
                     <<MSG_PREFIX, 7, MSG_TYPE_BATTERY, 77, 131, 13, 10>>} :
            NotificationHandler(frame)
    \/ Register("s_ok")

SpecFrames == Init /\ [][NextFrames]_vars

(***************************************************************************)
(* GetState on a connected cube whose writes succeed: the tasks run, the   *)
(* sleeps end and the clock goes on (asyncio runs every task that is ready)*)
(***************************************************************************)
NextGetState ==
    \/ SendCommand("u2", "GetState")
    \/ NotificationHandler(<<MSG_PREFIX, 0, MSG_TYPE_ROTATION, 0>>)
    \/ \E p \in ProcIds : SendStart(p)
    \/ \E p \in ProcIds : DebounceWake(p)
    \/ \E p \in ProcIds : WriteDone(p, TRUE)
    \/ Tick

SpecGetState ==
    /\ InitConnected
    /\ [][NextGetState]_vars
    /\ WF_vars(\E p \in ProcIds : SendStart(p))
    /\ WF_vars(\E p \in ProcIds : DebounceWake(p))
    /\ WF_vars(\E p \in ProcIds : WriteDone(p, TRUE))
    /\ WF_vars(Tick)

(***************************************************************************)
(* The auto-reconnect switch of a connected cube: turned off it calls      *)
(* disconnect(), turned on enable_auto_reconnect(); the same steps as      *)
(* above, from a manager that is connected                                 *)
(***************************************************************************)
SpecSwitch == InitConnected /\ [][NextEnable]_vars

(***************************************************************************)
(* Properties                                                              *)
(***************************************************************************)
IsBatteryFrame(f) == Len(f) >= 5 /\ f[3] = 5
IsStateFrame(f) == Len(f) >= 60 /\ f[3] = 2

\* C1: if every transport open fails, a call of connect ends only after exactly 3
\* open attempts, and it ends by raising the failure: never sooner, never a 4th
C1_ThreeAttemptsThenRaise ==
    obs.conn.result # "none" =>
        obs.conn.opens = 3 /\ obs.conn.result \in {"BleakError", "AttributeError"}

\* C2: once disconnect() was called, should_auto_reconnect is false, and a drop
\* that the transport reports then creates no auto-reconnect task
C2_NoReconnectAfterDisconnect ==
    disc_called =>
        /\ ~should_auto_reconnect
        /\ obs.op = "drop" => obs.spawned = "none"

\* a drop is reported after disconnect() was called, while a device is known
C2_DropAfterDisconnect ==
    disc_called /\ obs.op = "drop" /\ obs.result = "ok" /\ device # "None"

\* C3: send_command called while the manager is not connected writes nothing,
\* raises nothing, leaves no coroutine or task behind that could write later, and
\* leaves last_state_update and pending_state_update as they were
C3_OfflineSendIsDropped ==
    [][obs'.call # "none" /\ ~Online(World) =>
            /\ obs'.result = "ok"
            /\ obs'.wrote = "none"
            /\ obs'.spawned = "none"
            /\ writes' = writes
            /\ procs' = procs
            /\ last_state_update' = last_state_update
            /\ pending_state_update' = pending_state_update]_vars

\* GetState was called on a manager that had been connected, had sent GetState and
\* had a debounced send pending, and is not connected any more
C3_OfflineSendSeen ==
    /\ obs.call = "GetState" /\ obs.result = "ok" /\ obs.wrote = "none"
    /\ ~is_connected /\ last_state_update # 0 /\ pending_state_update

\* C4 as stated: send_command with a name that is not in the command table raises
\* ValueError in the call and writes nothing
C4_UnknownNameRaises ==
    obs.call = "Bogus" => obs.result = "ValueError" /\ obs.wrote = "none"

\* C4, amended: on a connected manager send_command with a name that is not in the
\* command table raises ValueError in the call, writes nothing and leaves nothing
\* behind; on a manager that is not connected the call returns without raising
C4_UnknownNameRaisesWhenOnline ==
    [][obs'.call = "Bogus" =>
            /\ obs'.result = IF Online(World) THEN "ValueError" ELSE "ok"
            /\ obs'.wrote = "none"
            /\ obs'.spawned = "none"
            /\ writes' = writes
            /\ procs' = procs]_vars

\* the unknown name was given to a connected manager and ValueError was raised
C4_UnknownNameSeen ==
    obs.call = "Bogus" /\ obs.result = "ValueError" /\ is_connected

\* C5 as stated: two GetState calls 100 ms apart on a connected manager lead to at
\* most one write, and to none earlier than 500 ms after the first call
C5_TwoCallsOneLateWrite ==
    Len(calls) = 2 /\ calls[2] = calls[1] + 1 =>
        /\ Len(writes) <= 1
        /\ \A k \in DOMAIN writes : writes[k] >= calls[1] + 5

\* C5, amended: of two GetState calls 100 ms apart on a connected manager that sent
\* no GetState in the 500 ms before, the first is written in the call; the second
\* is not: it leaves one debounced send pending, which is written no earlier
\* than 500 ms after the second call; there are two writes in all
C5_FirstAtOnceSecondDeferred ==
    Len(calls) = 2 /\ calls[2] = calls[1] + 1 =>
        /\ Len(writes) \in {1, 2}
        /\ writes[1] = calls[1]
        /\ Len(writes) = 1 =>
                /\ pending_state_update
                /\ \E p \in TaskIds : procs[p].op = "debounce"
        /\ Len(writes) = 2 => writes[2] >= calls[2] + 5

\* both writes of two calls 100 ms apart were issued
C5_BothWritten ==
    Len(calls) = 2 /\ calls[2] = calls[1] + 1 /\ Len(writes) = 2

\* C6: no fan-out of the state listeners calls a listener that is not registered
\* at the time of the call: a listener unsubscribed before or during the fan-out
\* is not called
C6_UnsubscribedNeverCalled == fan.stale = {}

\* a listener unsubscribed the peer during a fan-out of a state frame, and the
\* fan-out went on to call another listener
C6_UnsubscribedDuringFanOut ==
    /\ fan.kind = "state" /\ "s_ok" \in fan.reg0 /\ "s_ok" \notin state_callbacks
    /\ {"s_swap", "s_new"} \subseteq fan.called

\* C7: the fan-out of a notification calls every listener registered for it, also
\* when one of them raises, and a rotation frame creates the GetState task
C7_RaisingListenerSkipsNone ==
    fan.kind \in {"move", "state", "battery"} =>
        /\ fan.reg0 \subseteq fan.called
        /\ fan.kind = "move" => obs.spawned = "send"

\* C8: the exception of a state listener is never caught by the handler of connect
\* (which tears the transport down and retries), and never ends a call of connect,
\* disconnect or enable_auto_reconnect or the auto-reconnect task
C8_ListenerNeverFailsConnection ==
    obs.caught # "Exception" /\ obs.result # "Exception"

\* C9: a battery frame of at least 5 bytes sets battery_level to its byte 3 if the
\* sum of its bytes 0 to 3 modulo 256 is its byte 4, and else leaves battery_level
\* as it was; the handler raises nothing
C9_BatteryChecksum ==
    [][obs'.op = "notification" /\ IsBatteryFrame(rx') =>
            /\ data'.battery_level =
                    IF (rx'[1] + rx'[2] + rx'[3] + rx'[4]) % 256 = rx'[5]
                    THEN rx'[4] ELSE data.battery_level
            /\ obs'.result = "ok"]_vars

\* a battery frame whose first four bytes sum to more than 255 was accepted
C9_AcceptedAboveByte ==
    /\ IsBatteryFrame(rx) /\ rx[1] + rx[2] + rx[3] + rx[4] > 255
    /\ (rx[1] + rx[2] + rx[3] + rx[4]) % 256 = rx[5] /\ data.battery_level = rx[4]

Sticker(f, i, k) == f[3 + 9 * i + k + 1]
Flag(i) == data.face_states[<<"Blue", "Green", "White", "Yellow", "Red", "Orange">>[i + 1]]

\* the 8 sticker bytes of face i are equal
FaceUniform(f, i) == \A k \in 1..8 : Sticker(f, i, k) = Sticker(f, i, 1)

\* every face but face i has equal sticker bytes, and face i has but for its
\* sticker k, which is another byte: one sticker byte of a frame of equal sticker
\* bytes was changed
OneChanged(f, i, k) ==
    /\ \A j \in 0..5 : j # i => FaceUniform(f, j)
    /\ \A a, b \in (1..8) \ {k} : Sticker(f, i, a) = Sticker(f, i, b)
    /\ Sticker(f, i, k) # Sticker(f, i, (k % 8) + 1)

\* the changed sticker maps to another colour than the other stickers of its face
OtherColour(f, i, k) ==
    COLOR_HEX_LOOKUP(Sticker(f, i, k)) # COLOR_HEX_LOOKUP(Sticker(f, i, (k % 8) + 1))

\* C11 as stated: a state frame whose faces each have 8 equal sticker bytes gives
\* is_solved; with one sticker byte of one face changed to any other byte it gives
\* not is_solved, the flag of that face false and the other five true
C11_AnyChangedByteUnsolves ==
    IsStateFrame(rx) =>
        /\ (\A i \in 0..5 : FaceUniform(rx, i)) => data.is_solved
        /\ \A i \in 0..5, k \in 1..8 :
              OneChanged(rx, i, k) =>
                  ~data.is_solved /\ \A j \in 0..5 : Flag(j) = (j # i)

\* C11, amended: a state frame whose faces each have 8 equal sticker bytes gives
\* is_solved; with one sticker byte of one face changed to a byte of another colour
\* it gives not is_solved, the flag of that face false and the other five true;
\* changed to another byte of the same colour (two bytes that are no key of the
\* colour table) it still gives is_solved and six true flags
C11_ChangedColourUnsolves ==
    IsStateFrame(rx) =>
        /\ (\A i \in 0..5 : FaceUniform(rx, i)) => data.is_solved
        /\ \A i \in 0..5, k \in 1..8 :
              OneChanged(rx, i, k) =>
                  IF OtherColour(rx, i, k)
                  THEN ~data.is_solved /\ \A j \in 0..5 : Flag(j) = (j # i)
                  ELSE data.is_solved /\ \A j \in 0..5 : Flag(j)

\* one sticker of the White face was changed to another colour, and that face
\* alone is not solved
C11_OneFaceUnsolved ==
    /\ IsStateFrame(rx) /\ \E k \in 1..8 : OneChanged(rx, 2, k) /\ OtherColour(rx, 2, k)
    /\ ~data.is_solved /\ ~Flag(2) /\ Flag(0) /\ Flag(5)

\* C12 as stated: in every DeviceState, the fresh one included, is_solved is true
\* iff every entry of face_states is true
C12_SolvedIffEveryFlag ==
    data.is_solved = (\A n \in DOMAIN data.face_states : data.face_states[n])

\* C12, amended: a DeviceState into which a state frame was decoded has the six
\* face flags, and is_solved is true iff all six are true; the fresh DeviceState has
\* no face flag and is_solved is false
C12_SolvedIffSixFlags ==
    IF data.face_states = <<>>
    THEN ~data.is_solved
    ELSE /\ DOMAIN data.face_states = {"Blue", "Green", "White", "Yellow", "Red", "Orange"}
         /\ data.is_solved = (\A n \in DOMAIN data.face_states : data.face_states[n])

\* a state frame was decoded: some faces are solved, one is not
C12_SomeFlagsTrue ==
    /\ data.face_states # <<>> /\ ~data.is_solved
    /\ data.face_states["Blue"] /\ ~data.face_states["Yellow"]

\* a frame shorter than the least length of its type
IsShortFrame(f) ==
    \/ Len(f) < 3
    \/ f[3] = 1 /\ Len(f) < 4
    \/ f[3] = 2 /\ Len(f) < 60
    \/ f[3] = 5 /\ Len(f) < 5

\* C13: a frame shorter than the least length of its type (any frame under 3
\* bytes, a rotation under 4, a state frame under 60, a battery frame under 5)
\* leaves DeviceState as it was, calls no move listener, and the handler raises
\* nothing
C13_ShortFrameDecodesNothing ==
    [][obs'.op = "notification" /\ IsShortFrame(rx') =>
            /\ data' = data
            /\ fan'.kind # "move"
            /\ obs'.spawned = "none"
            /\ obs'.result = "ok"]_vars

\* a rotation frame of 3 bytes came while a move listener was registered and
\* DeviceState held a battery level
C13_ShortRotationSeen ==
    /\ obs.op = "notification" /\ Len(rx) = 3 /\ rx[3] = 1
    /\ movement_callbacks # {} /\ data.battery_level = 77 /\ fan.kind = "none"

\* a rotation frame whose byte 3 is an index of the table of rotations
IsRotationFrame(f) == Len(f) >= 4 /\ f[3] = 1 /\ f[4] \in 0..11

\* C14: a rotation frame whose byte 3 is an index of the table calls every
\* registered move listener, once, with the label of the index ("Blue Clockwise"
\* for 0), and creates the task that sends GetState
C14_RotationCallsAllThenGetState ==
    obs.op = "notification" /\ IsRotationFrame(rx) =>
        /\ fan.kind = "move"
        /\ fan.called = fan.reg0
        /\ fan.arg = FACE_ROTATION_MAP(rx[4])
        /\ rx[4] = 0 => fan.arg = "Blue Clockwise"
        /\ obs.spawned = "send"

\* a frame of at least 3 bytes whose type is not Rotation, State or Battery
IsOtherFrame(f) == Len(f) >= 3 /\ f[3] \notin {1, 2, 5}

\* C15: a frame whose type is not Rotation, State or Battery leaves DeviceState and
\* the connection as they were, calls no listener, creates no task, writes nothing,
\* and the handler raises nothing
C15_OtherTypesIgnored ==
    [][obs'.op = "notification" /\ IsOtherFrame(rx') =>
            /\ data' = data
            /\ is_connected' = is_connected /\ client' = client
            /\ characteristic' = characteristic /\ device' = device
            /\ handles' = handles
            /\ state_callbacks' = state_callbacks
            /\ movement_callbacks' = movement_callbacks
            /\ fan'.kind = "none"
            /\ obs'.spawned = "none" /\ obs'.wrote = "none"
            /\ procs' = procs /\ writes' = writes
            /\ obs'.result = "ok"]_vars

\* a Stats frame came while listeners of both kinds were registered and
\* DeviceState held a battery level
C15_StatsFrameSeen ==
    /\ obs.op = "notification" /\ IsOtherFrame(rx) /\ rx[3] = 7
    /\ state_callbacks # {} /\ movement_callbacks # {} /\ data.battery_level = 77

\* C16: the notification handler ends without raising, whatever the frame and
\* whatever the listeners do: raise, unsubscribe themselves, register a listener
C16_HandlerNeverRaises ==
    obs.op = "notification" => obs.result = "ok"

\* a state listener unsubscribed itself while the listeners of a frame were fired:
\* the loop over the set raised RuntimeError, and the handler returned
C16_LoopErrorCaught ==
    /\ obs.op = "notification" /\ fan.kind \in {"state", "battery"}
    /\ fan.exc = "RuntimeError" /\ "s_unsub" \in fan.called /\ obs.result = "ok"

\* C17: when a call of connect returns, DeviceState is fresh: it holds nothing
\* that was decoded before the call began (in SpecRace no frame comes while a call
\* of connect is in progress)
C17_FreshOnConnect ==
    obs.conn.result = "ok" => data = GoCubeData

\* C18: at most one handle is open, and an open handle is the handle of the manager
C18_OneLiveHandle ==
    /\ Cardinality({h \in HandleIds : handles[h].st = "open"}) <= 1
    /\ \A h \in HandleIds : handles[h].st = "open" => client = h

\* C19: at most one coroutine is inside connect, between the acquisition of the
\* lock and the return or raise, and it is the holder of the lock; a call that
\* waits for the lock is not inside
C19_ConnectSerialized ==
    /\ \A p, q \in ProcIds : InConnect(p) /\ InConnect(q) => p = q
    /\ \A p \in ProcIds : InConnect(p) => connection_lock = p /\ ~At(p, "k_lock")

\* a call of connect waits for the lock while another, of the auto-reconnect task
\* or of a caller, is past its first attempt
C19_WaitsForRetryingCall ==
    \E p, q \in ProcIds :
        /\ At(p, "k_lock") /\ InConnect(q) /\ procs[q].retry_count > 0
        /\ {procs[p].op, procs[q].op} = {"connect", "auto"}

\* C20: when the transport reports a drop, the manager is marked not connected,
\* the state listeners are fired, the handler returns, and it has created the
\* auto-reconnect task, which has not run yet, iff auto-reconnect is on and a
\* device is known
C20_DropSchedulesReconnect ==
    obs.op = "drop" =>
        /\ ~is_connected
        /\ fan.kind = "drop"
        /\ obs.result = "ok"
        /\ (obs.spawned = "auto") = (should_auto_reconnect /\ device # "None")
        /\ obs.spawned = "auto" => \E p \in TaskIds : At(p, "a_start")

\* p runs _auto_reconnect: as the task of a drop or in enable_auto_reconnect
InAuto(p) == procs[p].op \in {"auto", "enable"}

\* C21: an auto-reconnect sequence calls connect at most 3 times; the sleep before
\* its k-th call lasts 2.0 * k seconds and is over when the call is made; the
\* sequence ends at the first call that succeeds; a call that fails is followed by
\* the next sleep, or after the third by the end of the sequence, which raises
\* nothing
C21_AutoSequence ==
    [][\A p \in ProcIds :
        /\ procs'[p].pc = "a_sleep"
                /\ (procs[p].pc # "a_sleep" \/ procs'[p].attempt # procs[p].attempt)
            => /\ procs'[p].attempt \in 0..2
               /\ procs'[p].wake = now' + 20 * (procs'[p].attempt + 1)
        /\ procs[p].pc = "a_sleep" /\ procs'[p].pc \notin {"a_sleep", "idle"}
            => /\ now >= procs[p].wake
               /\ procs'[p].attempt = procs[p].attempt
               /\ procs'[p].opens <= 1
        /\ InAuto(p) /\ obs'.conn.by = p /\ obs'.conn.result = "ok"
            => procs'[p].op = "idle" /\ obs'.by = p /\ obs'.result = "ok"
        /\ InAuto(p) /\ obs'.conn.by = p /\ obs'.conn.result \notin {"none", "ok"}
            => IF procs[p].attempt < 2
               THEN procs'[p].pc = "a_sleep" /\ procs'[p].attempt = procs[p].attempt + 1
               ELSE procs'[p].op = "idle" /\ obs'.by = p /\ obs'.result = "exhausted"
        /\ InAuto(p) /\ obs'.by = p
            => obs'.result \in {"ok", "exhausted"}]_vars

\* a sequence ended after its third call of connect failed, 2 + 4 + 6 seconds or
\* more after it began
C21_ExhaustedAfterTwelveSeconds ==
    /\ obs.op = "auto" /\ obs.result = "exhausted" /\ obs.conn.result = "BleakError"
    /\ now >= 5 + 20 + 40 + 60

\* C22: while the auto-reconnect flag is cleared, a running auto-reconnect sequence
\* opens no transport: no step taken with the flag cleared makes one more open
\* attempt in the sequence's call of connect
C22_NoOpenAfterDisable ==
    [][\A p \in ProcIds :
        ~should_auto_reconnect /\ InAuto(p) => procs'[p].opens <= procs[p].opens]_vars

\* C23: enable_auto_reconnect sets the flag; it enters the reconnect sequence in
\* the call (up to the first sleep of the sequence) iff the flag was cleared, the
\* manager is not connected and a device is known; otherwise it returns at once,
\* creates no task and starts nothing
C23_EnableStartsIffDisabledOffline ==
    [][\A p \in UserIds :
        (procs[p].op = "idle"
            /\ (procs'[p].op = "enable" \/ (obs'.op = "enable" /\ obs'.by = p)))
            => /\ should_auto_reconnect'
               /\ IF ~should_auto_reconnect /\ ~is_connected /\ device # "None"
                  THEN /\ procs'[p].op = "enable" /\ procs'[p].pc = "a_sleep"
                       /\ procs'[p].attempt = 0
                       /\ obs'.op = "none"
                  ELSE /\ obs'.op = "enable" /\ obs'.by = p /\ obs'.result = "ok"
                       /\ obs'.spawned = "none"
                       /\ procs' = procs]_vars

\* enable_auto_reconnect entered the sequence and sleeps before its first call of
\* connect: the flag was cleared, the link had dropped and the device is known
C23_SequenceStartedInCall ==
    /\ procs["u1"].op = "enable" /\ procs["u1"].pc = "a_sleep"
    /\ should_auto_reconnect /\ ~is_connected /\ device = "cube"

\* C24: disconnect() called on a manager that is disconnected and has no client
\* (never connected, or after a disconnect()) returns in the call without raising,
\* closes no handle, fires no listener, leaves every field of the manager as it
\* was and auto-reconnect disabled; called again, it changes nothing at all
C24_DisconnectIdempotent ==
    [][\A p \in UserIds :
        (procs[p].op = "idle" /\ client = 0 /\ ~is_connected
            /\ (procs'[p].op = "disconnect" \/ (obs'.op = "disconnect" /\ obs'.by = p)))
            => /\ obs'.op = "disconnect" /\ obs'.by = p /\ obs'.result = "ok"
               /\ procs' = procs
               /\ handles' = handles
               /\ fan'.kind = "none"
               /\ ~should_auto_reconnect'
               /\ client' = 0 /\ ~is_connected'
               /\ characteristic' = characteristic /\ device' = device
               /\ data' = data /\ state_callbacks' = state_callbacks
               /\ connection_lock' = connection_lock
               /\ ~should_auto_reconnect =>
                    World = [World EXCEPT !.client = client', !.handles = handles',
                                          !.procs = procs', !.data = data',
                                          !.should_auto_reconnect = should_auto_reconnect',
                                          !.state_callbacks = state_callbacks',
                                          !.is_connected = is_connected',
                                          !.device = device',
                                          !.characteristic = characteristic',
                                          !.connection_lock = connection_lock',
                                          !.pending_state_update = pending_state_update',
                                          !.last_state_update = last_state_update',
                                          !.movement_callbacks = movement_callbacks']]_vars

\* disconnect() returned on a manager without a client while a listener was
\* registered and auto-reconnect had been cleared
C24_DisconnectedAgain ==
    /\ obs.op = "disconnect" /\ obs.result = "ok" /\ fan.kind = "none"
    /\ client = 0 /\ ~is_connected /\ state_callbacks # {} /\ ~should_auto_reconnect
    /\ \A h \in HandleIds : handles[h].st # "open"

\* C25: the unsubscribe of register_callback(fn) removes fn and nothing else from
\* the state listeners and leaves the move listeners as they are; called when fn
\* is not registered it changes nothing; add_movement_callback and
\* remove_movement_callback change the move listeners by fn alone and leave the
\* state listeners as they are, and register_callback leaves the move listeners
C25_RegistriesIndependent ==
    [][/\ obs'.op = "unsubscribe" =>
            /\ state_callbacks' = state_callbacks \ {obs'.name}
            /\ movement_callbacks' = movement_callbacks
            /\ obs'.name \notin state_callbacks => state_callbacks' = state_callbacks
       /\ obs'.op = "register" =>
            /\ state_callbacks' = state_callbacks \cup {obs'.name}
            /\ movement_callbacks' = movement_callbacks
       /\ obs'.op = "add_movement" =>
            /\ movement_callbacks' = movement_callbacks \cup {obs'.name}
            /\ state_callbacks' = state_callbacks
       /\ obs'.op = "remove_movement" =>
            /\ movement_callbacks' = movement_callbacks \ {obs'.name}
            /\ state_callbacks' = state_callbacks]_vars

\* the unsubscribe of f1 was called: f1 is no state listener but still a move
\* listener, and the state listener f2 is still registered
C25_UnsubscribedOneOnly ==
    /\ obs.op = "unsubscribe" /\ obs.name = "f1"
    /\ state_callbacks = {"f2"} /\ movement_callbacks = {"f1", "f2"}

\* C26: when the DisableOrientation write of a connect attempt fails, the attempt
\* fails: the handler of connect catches the failure (and retries within the 3
\* attempts), and connect does not return in that step as if it had succeeded
C26_WriteFailureFailsAttempt ==
    [][\A p \in ProcIds :
        (At(p, "s_write") /\ procs[p].name = "DisableOrientation"
            /\ procs'[p] # procs[p] /\ obs'.failed = "write")
            => /\ obs'.caught # "none"
               /\ ~(obs'.conn.by = p /\ obs'.conn.result = "ok")]_vars

\* C27: every step in which the manager stops being connected is a step of the
\* cleanup: after it the manager has no client, no handle notifies, DeviceState is
\* fresh and the state listeners were fired
C27_DisconnectedThroughCleanup ==
    [][is_connected /\ ~is_connected' =>
            /\ client' = 0
            /\ \A h \in HandleIds : ~handles'[h].notify
            /\ data' = GoCubeData
            /\ fan'.kind = "cleanup"]_vars

\* C28: battery_level is None or an integer from 0 to 100, whatever the bytes of
\* the battery frames that were decoded
C28_BatteryInRange ==
    data.battery_level = NoBattery \/ data.battery_level \in 0..100

\* p awaits the DisableOrientation write of connect
AtDisableWrite(p) == At(p, "s_write") /\ procs[p].name = "DisableOrientation"

C30_WritesHalfSecondApart ==
    \A k \in 1..(Len(writes) - 1) : writes[k + 1] - writes[k] >= 5

\* the debounce task issued the second write, 500 ms after the first, after a
\* rotation frame had come in between
C30_DebouncedWriteOnTime ==
    /\ Len(writes) = 2 /\ writes[2] = writes[1] + 5
    /\ procs["d1"].pc = "s_write" /\ obs.wrote = "GetState"
    /\ Len(rx) = 4 /\ rx[3] = 1

\* the deferred GetState tasks that exist
DebounceTasks == {p \in ProcIds : procs[p].op = "debounce"}

\* C31: at most one deferred GetState task exists, and pending_state_update is
\* true exactly while one exists; a GetState call that is debounced while the
\* flag is set creates no task
C31_OneDeferredTask ==
    /\ Cardinality(DebounceTasks) <= 1
    /\ pending_state_update = (DebounceTasks # {})
    /\ obs.spawned = "debounce" => obs.wrote = "none"

\* a GetState call came inside the window while the deferred task was pending:
\* nothing was written and nothing was created
C31_CollapsedIntoPending ==
    /\ obs.call = "GetState" /\ obs.wrote = "none" /\ obs.spawned = "none"
    /\ pending_state_update /\ DebounceTasks = {"d1"}

\* C32: a fan-out of the state listeners in which a listener unsubscribes itself
\* or registers another listener calls every listener that was registered when it
\* began and ends without an error; after the fan-out of a drop the auto-reconnect
\* task is created if auto-reconnect is on and a device is known
C32_MutationDuringFanOutSafe ==
    fan.kind \in {"state", "battery", "drop", "connect", "cleanup"} =>
        /\ fan.reg0 \subseteq fan.called
        /\ fan.exc \notin {"RuntimeError"}
        /\ obs.op = "drop" /\ should_auto_reconnect /\ device # "None"
                => obs.spawned = "auto"

\* C33: a frame that the transport delivers while the manager is not marked
\* Connected changes nothing of DeviceState, calls no listener, creates no task and
\* writes no command
C33_FramesIgnoredWhileDisconnected ==
    [][obs'.op = "notification" /\ ~is_connected
            => /\ data' = data
               /\ fan'.kind = "none"
               /\ obs'.spawned = "none" /\ obs'.wrote = "none"]_vars

\* C34: whenever the manager is marked Connected it holds a transport handle and
\* the identifier of the write characteristic
C34_ConnectedHoldsHandle ==
    is_connected => client # 0 /\ characteristic # "None"

\* C35: every send_command("GetState") of a caller is followed by a GetState
\* write at or after the time of the call, unless a deferred task is still
\* asleep when the clock stops
C35_NoGetStateLost ==
    \A i \in 1..MaxCalls :
        (i <= Len(calls))
            ~> \/ IF i <= Len(calls)
                  THEN \E k \in 1..Len(writes) : writes[k] >= calls[i]
                  ELSE FALSE
               \/ \E p \in ProcIds : procs[p].pc = "d_sleep" /\ procs[p].wake > MaxTime

\* C36: an auto-reconnect sequence whose sleep ends while the manager is marked
\* Connected ends there: it does not call connect, whose cleanup would close the
\* transport
C36_AutoSparesLiveConnection ==
    [][\A p \in ProcIds :
            procs[p].op = "auto" /\ procs[p].pc = "a_sleep" /\ procs'[p] # procs[p]
                /\ is_connected
            => procs'[p].op = "idle"]_vars

\* C37: every connect call of an auto-reconnect sequence is given a device
\* reference: the argument of the call is never absent
C37_AutoConnectsWithDevice ==
    \A p \in ProcIds :
        procs[p].op = "auto" /\ procs[p].pc \notin {"a_start", "a_sleep"}
            => procs[p].arg # "None"

\* C38: when a call of disconnect() ends, by returning or by raising, the manager
\* is marked Disconnected, holds no transport handle, and DeviceState is reset
C38_DisconnectAlwaysCleans ==
    obs.op = "disconnect" =>
        ~is_connected /\ client = 0 /\ data = GoCubeData

\* no device is known, the manager is not marked Connected, and no call of connect
\* that was given a device is in progress
NoDeviceKnown ==
    /\ device = "None" /\ ~is_connected
    /\ \A p \in ProcIds :
            procs[p].op \in {"connect", "auto", "enable"}
                /\ procs[p].pc \notin {"a_start", "a_sleep"}
            => procs[p].arg = "None"

====
